---- MODULE Spec2Model ----
(***************************************************************************)
(* Universal Clock trade planner: the two program variants                  *)
(*   src/TradePlanApp.py  (live / historical pair selection, get_range with *)
(*                         exact match first, overlap score, trade tabs)    *)
(*   src/app.py           (single reverse scan, get_range over -1,0,+1,     *)
(*                         intraday tab)                                    *)
(* Both are Streamlit scripts that run top to bottom once per interaction.  *)
(* One run is modelled as a state machine whose program counter pc walks    *)
(* the sections of the script.  The state at Init is the state after the    *)
(* widgets were read and get_data returned a non-empty frame.               *)
(* custom_date / hist_date is the calendar date the date widget holds, and  *)
(* the run is Live exactly when it equals today.                            *)
(*                                                                          *)
(* Dates are day numbers (days since 2024-01-01), prices are integers       *)
(* (ticks).  None is the empty tuple; an optional scalar v is <<v>>.        *)
(* overlap_pct is an exact fraction <<num, den>> in lowest terms; den = 0   *)
(* is what numpy.float64 division by zero produces (nan for 0/0).           *)
(***************************************************************************)
EXTENDS Integers, Sequences, FiniteSets, TLC

VARIABLES variant, pairs, custom_date, today, df, pc, error,
          active_pair, mode, range1, range2, h1, l1, plot_band,
          overlap, overlap_pct, intraday, shortterm, future_ranges

vars == <<variant, pairs, custom_date, today, df, pc, error,
          active_pair, mode, range1, range2, h1, l1, plot_band,
          overlap, overlap_pct, intraday, shortterm, future_ranges>>

None == <<>>
Some(v) == <<v>>
Val(o) == o[1]

Variants == {"TradePlanApp", "app"}

\* ---------------------------------------------------------------- bounds
MaxGrid == 7
MaxPairs == 3
Margin == 3
RangeWindow == 2
MaxPriceIdx == 7
MaxSpan == 10
MaxPrice == 25

\* ------------------------------------------------------ program constants
LIVE_GRACE_DAYS == 30
HIST_TOLERANCE_DAYS == 10
APP_GRACE_DAYS == 30
K_NUM == 1
K_DEN == 5
FUTURE_SHOWN == 3

\* The hardcoded tables, as day numbers since 2024-01-01.
CONJUNCTION_PAIRS ==
    << <<26, 76>>, <<127, 165>>, <<240, 302>>, <<347, 386>>, <<431, 468>>,
       <<515, 575>>, <<621, 689>>, <<729, 767>>, <<807, 845>> >>

PAIRS ==
    << <<165, 217>>, <<240, 302>>, <<515, 575>>, <<621, 689>>, <<729, 767>> >>

\* ---------------------------------------------------------------- helpers
Max(S) == CHOOSE x \in S : \A y \in S : y <= x
Min(S) == CHOOSE x \in S : \A y \in S : x <= y
Min2(a, b) == IF a <= b THEN a ELSE b
Max2(a, b) == IF a >= b THEN a ELSE b

RECURSIVE GCD(_, _)
GCD(a, b) == IF b = 0 THEN a ELSE GCD(b, a % b)

\* n / d as a float would hold it: an exact fraction, or nan / inf for d = 0.
Rat(n, d) ==
    IF d = 0 THEN <<(IF n > 0 THEN 1 ELSE IF n < 0 THEN -1 ELSE 0), 0>>
    ELSE LET g == GCD(IF n < 0 THEN -n ELSE n, d)
         IN  <<n \div g, d \div g>>

NaN == <<0, 0>>
IsNumber(q) == q # None /\ q[2] # 0

\* ----------------------------------------------------------- SELECT PAIR
\* TradePlanApp.py, live branch: reversed scan, 30 days of grace, else the
\* last pair of the table.
RECURSIVE ScanReversed(_, _, _, _)
ScanReversed(ps, k, d, grace) ==
    IF k = 0 THEN None
    ELSE IF ps[k][1] <= d /\ d <= ps[k][2] + grace THEN ps[k]
    ELSE ScanReversed(ps, k - 1, d, grace)

RECURSIVE ScanForward(_, _, _, _)
ScanForward(ps, k, d, tol) ==
    IF k > Len(ps) THEN None
    ELSE IF ps[k][1] <= d /\ d <= ps[k][2] + tol THEN ps[k]
    ELSE ScanForward(ps, k + 1, d, tol)

\* Mutant: the fallback takes the first pair of the table, not the last.
select_live_first(ps, d) ==
    LET found == ScanReversed(ps, Len(ps), d, LIVE_GRACE_DAYS)
    IN  IF found = None THEN ps[1] ELSE found

select_live(ps, d) ==
    LET found == ScanReversed(ps, Len(ps), d, LIVE_GRACE_DAYS)
    IN  IF found = None THEN ps[Len(ps)] ELSE found

\* TradePlanApp.py, historical branch: forward scan, 10 days of tolerance,
\* None stands for st.error + st.stop.
select_historical(ps, d) == ScanForward(ps, 1, d, HIST_TOLERANCE_DAYS)

\* app.py: one reversed scan for both modes, 30 days, else the last pair.
select_app(ps, d) ==
    LET found == ScanReversed(ps, Len(ps), d, APP_GRACE_DAYS)
    IN  IF found = None THEN ps[Len(ps)] ELSE found

\* -------------------------------------------------------------- get_range
\* df[mask]: the rows of the frame dated d, in frame order.
Rows(frame, d) == SelectSeq(frame, LAMBDA row : row.date = d)

day_high(day) == Max({day[i].High : i \in 1..Len(day)})
day_low(day) == Min({day[i].Low : i \in 1..Len(day)})

RangeOf(day) ==
    [high |-> day_high(day), low |-> day_low(day), close |-> day[Len(day)].Close]

\* The first of the dates ds (in order) that has rows, as a range; else None.
RECURSIVE FirstWithRows(_, _, _)
FirstWithRows(frame, ds, k) ==
    IF k > Len(ds) THEN None
    ELSE IF Rows(frame, ds[k]) # <<>> THEN RangeOf(Rows(frame, ds[k]))
    ELSE FirstWithRows(frame, ds, k + 1)

\* TradePlanApp.py get_range: the exact date first, then date-1, date, date+1.
get_range(frame, date) ==
    IF Rows(frame, date) # <<>>
    THEN RangeOf(Rows(frame, date))
    ELSE FirstWithRows(frame, <<date - 1, date, date + 1>>, 1)

\* app.py get_range: d-1, d, d+1 in that order; (None, None) when none has rows.
get_range_app(frame, d) ==
    LET r == FirstWithRows(frame, <<d - 1, d, d + 1>>, 1)
    IN  IF r = None THEN <<None, None>> ELSE <<Some(r.high), Some(r.low)>>

\* df['Close'].iloc[-1]
latest_price(frame) == frame[Len(frame)].Close

\* ------------------------------------------------------- overlap analysis
Overlaps(r1, r2) == ~(r1.high < r2.low \/ r2.high < r1.low)

ol_high(r1, r2) == Min2(r1.high, r2.high)
\* Mutant: the lower of the two lows instead of the higher.
ol_low_min(r1, r2) == Min2(r1.low, r2.low)
ol_low(r1, r2) == Max2(r1.low, r2.low)

\* Mutant: the percentage is taken over range2's span.
overlap_pct_of_range2(r1, r2) ==
    Rat((ol_high(r1, r2) - ol_low(r1, r2)) * 100, r2.high - r2.low)

\* (ol_high - ol_low) / (range1['high'] - range1['low']) * 100
overlap_pct_of(r1, r2) ==
    Rat((ol_high(r1, r2) - ol_low(r1, r2)) * 100, r1.high - r1.low)

\* ----------------------------------------------------------- trade plans
intraday_signal(price, high, low) ==
    IF price > high THEN [signal |-> "Sell", target |-> Some(high)]
    ELSE IF price < low THEN [signal |-> "Buy", target |-> Some(low)]
    ELSE [signal |-> "HoldInside", target |-> None]

\* Mutant: the short-term thresholds are inclusive.
shortterm_signal_inclusive(price, high, low) ==
    IF price * K_DEN >= high * K_DEN + (high - low) * K_NUM THEN "Sell"
    ELSE IF price * K_DEN <= low * K_DEN - (high - low) * K_NUM THEN "Buy"
    ELSE "HoldInside"

\* latest_price > high + (high-low)*0.2, with 0.2 = K_NUM / K_DEN
shortterm_signal(price, high, low) ==
    IF price * K_DEN > high * K_DEN + (high - low) * K_NUM THEN "Sell"
    ELSE IF price * K_DEN < low * K_DEN - (high - low) * K_NUM THEN "Buy"
    ELSE "HoldInside"

\* tab3: the first FUTURE_SHOWN pairs after today whose superior date has a
\* range.
RECURSIVE Take(_, _)
Take(s, n) == IF n = 0 \/ s = <<>> THEN <<>> ELSE <<Head(s)>> \o Take(Tail(s), n - 1)

future_pairs(ps, t) == SelectSeq(ps, LAMBDA p : p[1] > t)

future_shown(ps, t, frame) ==
    SelectSeq(Take(future_pairs(ps, t), FUTURE_SHOWN),
              LAMBDA p : get_range(frame, p[1]) # None)

\* ------------------------------------------------------------- the script
Start(v, ps, cd, td, frame) ==
    /\ variant = v
    /\ pairs = ps
    /\ custom_date = cd
    /\ today = td
    /\ df = frame
    /\ pc = "select"
    /\ error = "none"
    /\ active_pair = None
    /\ mode = "unset"
    /\ range1 = None
    /\ range2 = None
    /\ h1 = None
    /\ l1 = None
    /\ plot_band = None
    /\ overlap = None
    /\ overlap_pct = None
    /\ intraday = None
    /\ shortterm = "unset"
    /\ future_ranges = <<>>

\* TradePlanApp.py 60-85, app.py 30-36.
SelectPair ==
    /\ pc = "select"
    /\ IF variant = "TradePlanApp"
       THEN IF custom_date = today
            THEN /\ active_pair' = select_live(pairs, today)
                 /\ mode' = "LIVE"
                 /\ pc' = "range"
                 /\ error' = error
            ELSE /\ active_pair' = select_historical(pairs, custom_date)
                 /\ IF select_historical(pairs, custom_date) = None
                    THEN /\ error' = "NoMatchingPair"
                         /\ pc' = "stopped"
                         /\ mode' = mode
                    ELSE /\ error' = error
                         /\ pc' = "range"
                         /\ mode' = "HISTORICAL"
       ELSE /\ active_pair' =
                 select_app(pairs, IF custom_date # today THEN custom_date ELSE today)
            /\ mode' = mode
            /\ pc' = "range"
            /\ error' = error
    /\ UNCHANGED <<variant, pairs, custom_date, today, df, range1, range2, h1, l1,
                   plot_band, overlap, overlap_pct, intraday, shortterm,
                   future_ranges>>

\* TradePlanApp.py 110-111, app.py 47.
GetRange ==
    /\ pc = "range"
    /\ IF variant = "TradePlanApp"
       THEN /\ range1' = get_range(df, active_pair[1])
            /\ range2' = get_range(df, active_pair[2])
            /\ UNCHANGED <<h1, l1>>
       ELSE /\ h1' = get_range_app(df, active_pair[1])[1]
            /\ l1' = get_range_app(df, active_pair[1])[2]
            /\ UNCHANGED <<range1, range2>>
    /\ pc' = "display"
    /\ UNCHANGED <<variant, pairs, custom_date, today, df, error, active_pair, mode,
                   plot_band, overlap, overlap_pct, intraday, shortterm,
                   future_ranges>>

\* TradePlanApp.py 142-146: the predicted band is drawn only if range1.
\* app.py 50-52: l1 and h1 are formatted with :.1f, a TypeError on None.
Display ==
    /\ pc = "display"
    /\ IF variant = "TradePlanApp"
       THEN /\ plot_band' = IF range1 # None
                            THEN <<range1.low, range1.high>> ELSE None
            /\ pc' = "accuracy"
            /\ error' = error
       ELSE /\ plot_band' = plot_band
            /\ IF l1 = None \/ h1 = None
               THEN /\ error' = "TypeError"
                    /\ pc' = "raised"
               ELSE /\ error' = error
                    /\ pc' = "tabs"
    /\ UNCHANGED <<variant, pairs, custom_date, today, df, active_pair, mode,
                   range1, range2, h1, l1, overlap, overlap_pct, intraday,
                   shortterm, future_ranges>>

\* TradePlanApp.py 152-160 and 194-195.
Accuracy ==
    /\ pc = "accuracy"
    /\ IF range1 # None /\ range2 # None
       THEN /\ overlap' = Some(Overlaps(range1, range2))
            /\ overlap_pct' = IF Overlaps(range1, range2)
                              THEN overlap_pct_of(range1, range2)
                              ELSE <<0, 1>>
            /\ pc' = "tabs"
       ELSE /\ UNCHANGED <<overlap, overlap_pct>>
            /\ pc' = "done"
    /\ UNCHANGED <<variant, pairs, custom_date, today, df, error, active_pair, mode,
                   range1, range2, h1, l1, plot_band, intraday, shortterm,
                   future_ranges>>

\* TradePlanApp.py 162-193, app.py 61-69.
TradePlans ==
    /\ pc = "tabs"
    /\ IF variant = "TradePlanApp"
       THEN /\ intraday' = intraday_signal(latest_price(df), range1.high, range1.low)
            /\ shortterm' = shortterm_signal(latest_price(df), range1.high, range1.low)
            /\ future_ranges' = future_shown(pairs, today, df)
       ELSE /\ intraday' = intraday_signal(latest_price(df), Val(h1), Val(l1))
            /\ UNCHANGED <<shortterm, future_ranges>>
    /\ pc' = "done"
    /\ UNCHANGED <<variant, pairs, custom_date, today, df, error, active_pair, mode,
                   range1, range2, h1, l1, plot_band, overlap, overlap_pct>>

Next == SelectPair \/ GetRange \/ Display \/ Accuracy \/ TradePlans

\* ------------------------------------------------------------------ inputs
Bar(d, h, l, c) == [date |-> d, High |-> h, Low |-> l, Close |-> c]

RECURSIVE SortedSeq(_)
SortedSeq(S) == IF S = {} THEN <<>> ELSE <<Min(S)>> \o SortedSeq(S \ {Min(S)})

\* Pair tables: ascending, non-overlapping, superior < inferior, like the
\* hardcoded ones; endpoints on a grid of one week.
GridPoints == {7 * k : k \in 0..MaxGrid}
PairsOf(s) == [k \in 1..(Len(s) \div 2) |-> <<s[2 * k - 1], s[2 * k]>>]
GenericTables ==
    {PairsOf(SortedSeq(S)) :
        S \in {T \in SUBSET GridPoints : Cardinality(T) \in {2 * n : n \in 1..MaxPairs}}}

Tables(v) ==
    GenericTables \cup {IF v = "TradePlanApp" THEN CONJUNCTION_PAIRS ELSE PAIRS}

\* Reference dates from before the first pair to after the last grace window.
RefDates(ps) ==
    (ps[1][1] - Margin)..(ps[Len(ps)][2] + LIVE_GRACE_DAYS + Margin)

\* A frame with one bar on every grid date.
SelectFrame == [k \in 1..(MaxGrid + 1) |-> Bar(7 * (k - 1), 20, 10, 15)]

InitSelect ==
    \E v \in Variants :
      \E ps \in Tables(v) :
        \E cd \in RefDates(ps) :
          \E td \in {cd, cd + 1} :
            Start(v, ps, cd, td, SelectFrame)

\* One pair; bars present or missing on each date near its two dates.  The
\* bar of date d is told from the others by its prices.
RangePair == <<10, 20>>
LastDay == RangePair[2] + 20
DatedBar(d) == Bar(d, 100 + d, 50 + d, 60 + d)
FrameOn(D) == [k \in 1..Cardinality(D) |-> DatedBar(SortedSeq(D)[k])]
Near(d) == (d - RangeWindow)..(d + RangeWindow)

InitRange ==
    \E v \in Variants :
      \E A \in SUBSET Near(RangePair[1]) :
        \E B \in SUBSET Near(RangePair[2]) :
          \E td \in {RangePair[1], RangePair[1] + 1} :
            Start(v, <<RangePair>>, RangePair[1], td, FrameOn(A \cup B \cup {LastDay}))

\* Bars on both dates of the pair, with all ranges low <= high of a price grid.
PriceGrid == {5 * k : k \in 1..MaxPriceIdx}
GridRanges == {r \in PriceGrid \X PriceGrid : r[1] <= r[2]}

InitOverlap ==
    \E v \in Variants :
      \E a \in GridRanges :
        \E b \in GridRanges :
          \E td \in {RangePair[1], RangePair[1] + 1} :
            Start(v, <<RangePair>>, RangePair[1], td,
                  << Bar(RangePair[1], a[2], a[1], a[1]),
                     Bar(RangePair[2], b[2], b[1], b[1]),
                     Bar(LastDay, 15, 15, 15) >>)

\* A range of every width up to MaxSpan above 10, and every last close.

InitSignal ==
    \E v \in Variants :
      \E w \in 0..MaxSpan :
        \E p \in 1..MaxPrice :
          \E td \in {RangePair[1], RangePair[1] + 1} :
            Start(v, <<RangePair>>, RangePair[1], td,
                  << Bar(RangePair[1], 10 + w, 10, 10),
                     Bar(RangePair[2], p, p, p) >>)

SpecSelect == InitSelect /\ [][Next]_vars
SpecRange == InitRange /\ [][Next]_vars
SpecOverlap == InitOverlap /\ [][Next]_vars
SpecSignal == InitSignal /\ [][Next]_vars

Init == InitSelect
Spec == SpecSelect

\* ============================================================== properties
IsTradePlanApp == variant = "TradePlanApp"
Selected == pc \notin {"select", "stopped"}
Ranged == pc \notin {"select", "stopped", "range"}
Analysed == IsTradePlanApp /\ pc \in {"tabs", "done"} /\ overlap # None

InWindow(p, d, w) == p[1] <= d /\ d <= p[2] + w
Eligible(ps, d, w) == {k \in 1..Len(ps) : InWindow(ps[k], d, w)}
LastPair == pairs[Len(pairs)]
LiveWindow == IF IsTradePlanApp THEN LIVE_GRACE_DAYS ELSE APP_GRACE_DAYS
HistWindow == IF IsTradePlanApp THEN HIST_TOLERANCE_DAYS ELSE APP_GRACE_DAYS

C2_HistoricalNeverGuesses ==
    (pc # "select" /\ custom_date # today) =>
        IF Eligible(pairs, custom_date, HistWindow) = {}
        THEN pc = "stopped" /\ error = "NoMatchingPair" /\ active_pair = None
        ELSE active_pair # None /\ InWindow(active_pair, custom_date, HistWindow)

\* C3: when pairs' windows hold the reference date, Live returns the eligible
\* pair of the latest superior date and Historical the eligible pair of the
\* earliest superior date.
C3_ScanOrderWinner ==
    Selected =>
        IF custom_date = today
        THEN Eligible(pairs, today, LiveWindow) # {} =>
                active_pair = pairs[Max(Eligible(pairs, today, LiveWindow))]
        ELSE Eligible(pairs, custom_date, HistWindow) # {} =>
                active_pair = pairs[Min(Eligible(pairs, custom_date, HistWindow))]

\* The date whose bars the range of d should come from: d itself if it has a
\* bar, else the first of d-1, d+1 that has one, else none.
HasBar(d) == \E k \in 1..Len(df) : df[k].date = d
SourceDate(d) ==
    IF HasBar(d) THEN Some(d)
    ELSE IF HasBar(d - 1) THEN Some(d - 1)
    ELSE IF HasBar(d + 1) THEN Some(d + 1)
    ELSE None
HighOn(d) == Max({df[k].High : k \in {i \in 1..Len(df) : df[i].date = d}})
LowOn(d) == Min({df[k].Low : k \in {i \in 1..Len(df) : df[i].date = d}})

RangeIsFrom(r, d) ==
    IF SourceDate(d) = None THEN r = None
    ELSE /\ r # None
         /\ r.high = HighOn(Val(SourceDate(d)))
         /\ r.low = LowOn(Val(SourceDate(d)))

\* C4: in both variants the range of a date comes from the bars of that very
\* date when it has any, else from the first of date-1, date+1 with a bar, and
\* is absent exactly when none of the three dates has a bar.
C4_ExactDatePreferred ==
    Ranged =>
        IF IsTradePlanApp
        THEN /\ RangeIsFrom(range1, active_pair[1])
             /\ RangeIsFrom(range2, active_pair[2])
        ELSE IF SourceDate(active_pair[1]) = None
             THEN h1 = None /\ l1 = None
             ELSE /\ h1 = Some(HighOn(Val(SourceDate(active_pair[1]))))
                  /\ l1 = Some(LowOn(Val(SourceDate(active_pair[1]))))

\* C5: missing price data near the superior or inferior date never raises:
\* the run completes, and overlap and percentage stay absent.
C5_MissingDataNeverRaises ==
    /\ pc # "raised"
    /\ error # "TypeError"
    /\ (IsTradePlanApp /\ pc = "done" /\ (range1 = None \/ range2 = None)) =>
            /\ overlap = None
            /\ overlap_pct = None
            /\ intraday = None
            /\ (range1 = None => plot_band = None)

\* C6: a zero-width range1 yields an absent percentage, the division by
\* range1.high - range1.low is not performed (no nan), and the analysis goes on.
C6_DegenerateRangeAbsentPct ==
    (Analysed /\ range1.high = range1.low) =>
        /\ overlap_pct = None
        /\ overlap_pct # NaN

\* C7: ranges that do not overlap give overlap false and an absent
\* percentage, never the number 0.
C7_NoOverlapAbsentPct ==
    (Analysed /\ (range1.high < range2.low \/ range2.high < range1.low)) =>
        /\ overlap = Some(FALSE)
        /\ overlap_pct = None
        /\ overlap_pct # <<0, 1>>

\* The prices common to both ranges.
Common(r1, r2) == (r1.low..r1.high) \cap (r2.low..r2.high)
HasRange(r, lo, hi) == r # None /\ r.low = lo /\ r.high = hi

\* C8: overlap detection is symmetric and says whether the two ranges share
\* a price; over a non-degenerate range1 the percentage is the length of the
\* shared interval over range1's span times 100, so swapping the ranges
\* changes only the divisor ([10,20],[15,25]: 50 both ways; [10,20],[15,35]:
\* 50 one way and 25 the other).
C8_OverlapSymmetricPctNot ==
    Analysed =>
        /\ overlap = Some(Overlaps(range2, range1))
        /\ Val(overlap) <=> (Common(range1, range2) # {})
        /\ (Val(overlap) /\ range1.low < range1.high) =>
              /\ overlap_pct =
                    Rat((Cardinality(Common(range1, range2)) - 1) * 100,
                        range1.high - range1.low)
              /\ range2.low < range2.high =>
                    overlap_pct[1] * (range1.high - range1.low)
                            * overlap_pct_of(range2, range1)[2]
                      = overlap_pct_of(range2, range1)[1]
                            * (range2.high - range2.low) * overlap_pct[2]
        /\ (HasRange(range1, 10, 20) /\ HasRange(range2, 15, 25)) =>
              overlap = Some(TRUE) /\ overlap_pct = <<50, 1>>
        /\ (HasRange(range1, 15, 25) /\ HasRange(range2, 10, 20)) =>
              overlap = Some(TRUE) /\ overlap_pct = <<50, 1>>
        /\ (HasRange(range1, 10, 20) /\ HasRange(range2, 15, 35)) =>
              overlap = Some(TRUE) /\ overlap_pct = <<50, 1>>
        /\ (HasRange(range1, 15, 35) /\ HasRange(range2, 10, 20)) =>
              overlap = Some(TRUE) /\ overlap_pct = <<25, 1>>

\* The swapped pair whose percentage differs from its mirror image.
C8_Witness ==
    /\ Analysed
    /\ HasRange(range1, 15, 35)
    /\ HasRange(range2, 10, 20)
    /\ overlap = Some(TRUE)
    /\ overlap_pct = <<25, 1>>

Price == latest_price(df)

PctIs(q, n) == IsNumber(q) /\ q[1] = n * q[2]
PctInUnit == IsNumber(overlap_pct) /\ 0 <= overlap_pct[1]
                /\ overlap_pct[1] <= 100 * overlap_pct[2]
Touching == range1.high = range2.low \/ range2.high = range1.low
Contained == range2.low <= range1.low /\ range1.high <= range2.high
OverlapCase == Analysed /\ overlap = Some(TRUE) /\ range1.low < range1.high

\* C10 as stated: over a non-degenerate range1 the percentage of overlapping
\* ranges lies in [0, 100], is 0 exactly when the ranges touch at a boundary
\* and 100 exactly when range2 contains range1.
C10_PctZeroOnlyWhenTouching ==
    OverlapCase =>
        /\ PctInUnit
        /\ PctIs(overlap_pct, 0) <=> Touching
        /\ PctIs(overlap_pct, 100) <=> Contained

\* C10 amended: the percentage lies in [0, 100]; it is 0 exactly when the
\* ranges share a single price, that is when they touch at a boundary or
\* range2 is a zero-width range; it is 100 exactly when range2 contains range1.
C10_PctWithinUnit ==
    OverlapCase =>
        /\ PctInUnit
        /\ PctIs(overlap_pct, 0) <=> (Touching \/ range2.low = range2.high)
        /\ PctIs(overlap_pct, 100) <=> Contained

\* A zero-width range2 strictly inside range1: percentage 0 without touching.
C10_Witness ==
    /\ OverlapCase
    /\ range2.low = range2.high
    /\ range1.low < range2.low
    /\ range2.high < range1.high
    /\ overlap_pct = <<0, 1>>

====
